---- MODULE Spec2Model ----
(***************************************************************************)
(* The audio relay of gemini-live-api: one WebSocket client connection is  *)
(* served by handle_client (common.py), which runs process_audio.  Two     *)
(* variants of process_audio are in the repository:                        *)
(*   archive/main.py  ws_reader / audio_sender / model_receiver, a bounded *)
(*                    queue, a supervisor racing reader and receiver;      *)
(*   server.py        handle_websocket_messages / process_and_send_audio / *)
(*                    receive_and_play inside an asyncio.TaskGroup.        *)
(* Each coroutine is a process whose position is the await it is suspended *)
(* in; one action is one run of a coroutine from one suspension to the     *)
(* next.  The client (frames, disconnect) and the remote session (events,  *)
(* stream end, failing calls) are the environment.                         *)
(***************************************************************************)
EXTENDS Integers, Sequences, FiniteSets, TLC

\* ---------------------------------------------------------------- constants

\* asyncio.Queue(maxsize=8)
QUEUE_MAXSIZE == 8
\* INPUT_SAMPLE_RATE_DEFAULT
INPUT_SAMPLE_RATE_DEFAULT == 16000
\* SEND_SAMPLE_RATE of server.py
SEND_SAMPLE_RATE == 16000
\* a second rate a browser may declare
OTHER_RATE == 3 * INPUT_SAMPLE_RATE_DEFAULT

\* ------------------------------------------------------------------- bounds

\* frames one client sends on a connection
MaxFrames == 3
\* frames of a burst of audio (backpressure scenarios)
MaxBurst == 10
\* events the remote session emits on a connection
MaxEvents == 2
\* frames, and events, of a connection in a run that is about the other side
FewFrames == 2
FewEvents == 1
\* remote calls that fail on a connection
MaxFaults == 1

ClientIds == {"c1", "c2"}
Tasks == {"router", "bridge", "receiver"}
\* a task that will not run again: returned, ended after a logged error,
\* ended by CancelledError, or (server.py) raised out of the coroutine
Stopped == {"done", "error", "cancelled", "failed"}

VARIABLES
  hpc,          \* handle_client / process_audio position, per client
  registry,     \* self.active_clients: the client ids it holds
  removals,     \* del self.active_clients[client_id] executed, per client
  ws,           \* client transport: "none", "open", "closed"
  sess,         \* remote session: "none", "open", "closed"
  closes,       \* remote session closes (exits of async with connect)
  queue,        \* audio_queue
  defaultRate,  \* client_sample_rate of process_audio
  readerRate,   \* client_sample_rate local to ws_reader: 0 while unbound
  sessionId,    \* session_id of receive_and_play: 0 while unset
  routerPc, routerItem,   \* reader task position; item held in a blocked put
  bridgePc,               \* sender task position
  recvPc, recvTodo,       \* receiver task position; messages left to write
  cancelReq,    \* tasks with a cancel() not yet delivered
  aborted,      \* TaskGroup already aborting
  calls,        \* calls made on the remote session, in order
  out,          \* messages written to the client transport, in order
  inLog,        \* frames the reader took from the transport, in order
  evLog,        \* events the receiver took from the remote session, in order
  nFaults       \* failed remote calls so far

vars == <<hpc, registry, removals, ws, sess, closes, queue, defaultRate,
          readerRate, sessionId, routerPc, routerItem, bridgePc, recvPc,
          recvTodo, cancelReq, aborted, calls, out, inLog, evLog, nFaults>>

\* ------------------------------------------------------------------ frames

\* A client frame as ws_reader sees it.  form: "text" or "binary" WebSocket
\* frame; json: what json.loads makes of it ("object", "nonobject",
\* "invalid" = JSONDecodeError, "undecodable" = UnicodeDecodeError);
\* data: "" (absent or empty), "ok" (non-empty, decodable) or "bad" (not
\* base64); rate: the declared rate, 0 when absent or falsy; rateNum: FALSE
\* when int() rejects the declared rate.
Frame(form, json, type, data, rate, rateNum) ==
  [form |-> form, json |-> json, type |-> type, data |-> data,
   rate |-> rate, rateNum |-> rateNum]

Ctl(type, data) == Frame("text", "object", type, data, 0, TRUE)
AudioFrame(data, rate) == Frame("text", "object", "audio", data, rate, TRUE)

F_end == Ctl("end", "")
F_text == Ctl("text", "ok")
F_emptyText == Ctl("text", "")
F_close == Ctl("close", "")
F_unknown == Ctl("other", "")
F_badJson == Frame("text", "invalid", "", "", 0, TRUE)
F_nonObject == Frame("text", "nonobject", "", "", 0, TRUE)
F_binary == Frame("binary", "undecodable", "", "ok", 0, TRUE)
F_binaryText == Frame("binary", "invalid", "", "ok", 0, TRUE)
F_audio == AudioFrame("ok", INPUT_SAMPLE_RATE_DEFAULT)
F_audioOther == AudioFrame("ok", OTHER_RATE)
F_audioNoRate == AudioFrame("ok", 0)
F_audioEmpty == AudioFrame("", INPUT_SAMPLE_RATE_DEFAULT)
F_audioBad == AudioFrame("bad", INPUT_SAMPLE_RATE_DEFAULT)
F_audioBadRate == Frame("text", "object", "audio", "ok", 0, FALSE)

\* every shape of frame a client can send
ClientFrames ==
  {F_end, F_text, F_emptyText, F_close, F_unknown, F_badJson, F_nonObject,
   F_binary, F_binaryText, F_audio, F_audioOther, F_audioNoRate,
   F_audioEmpty, F_audioBad, F_audioBadRate}
\* the frames of a client that streams audio without pause
BurstFrames == {F_audio, F_close}

\* ------------------------------------------------------------------ events

\* A remote event: parts = inline audio parts of the model turn (response.data
\* is their concatenation, None when there is none); text = an output
\* transcription with text; tc = turn_complete; intr = interrupted;
\* handle = new_handle of a resumable session_resumption_update, 0 for none.
Event(parts, text, tc, intr, handle) ==
  [parts |-> parts, text |-> text, tc |-> tc, intr |-> intr, handle |-> handle]

E_audio == Event(1, FALSE, FALSE, FALSE, 0)
E_audio2 == Event(2, FALSE, FALSE, FALSE, 0)
E_text == Event(0, TRUE, FALSE, FALSE, 0)
E_done == Event(0, FALSE, TRUE, FALSE, 0)
E_doneText == Event(0, TRUE, TRUE, FALSE, 0)
E_audioDone == Event(1, TRUE, TRUE, FALSE, 0)
E_intr == Event(0, FALSE, FALSE, TRUE, 0)
E_intrAudio == Event(1, FALSE, FALSE, TRUE, 0)
E_handle == Event(0, FALSE, FALSE, FALSE, 1)
E_handle2 == Event(0, FALSE, FALSE, FALSE, 2)
E_empty == Event(0, FALSE, FALSE, FALSE, 0)
E_handleIntr == Event(0, FALSE, FALSE, TRUE, 1)

RemoteEvents ==
  {E_audio, E_audio2, E_text, E_done, E_doneText, E_audioDone, E_intr,
   E_intrAudio, E_handle, E_handle2, E_empty}

\* ----------------------------------------------------------------- helpers

Upd(f, c, v) == [f EXCEPT ![c] = v]

\* the remote session accepts a call, or the call raises (at most MaxFaults
\* times on a run)
CallOutcomes == IF nFaults < MaxFaults THEN {TRUE, FALSE} ELSE {TRUE}

Call(op, id, rate, ok) == [op |-> op, id |-> id, rate |-> rate, ok |-> ok]
Msg(type, ev) == [type |-> type, ev |-> ev]
Chunk(id, rate) == [kind |-> "chunk", id |-> id, rate |-> rate]
\* the None sentinel of an `end` frame; id is the frame it came from
Sentinel(id) == [kind |-> "end", id |-> id, rate |-> 0]
NoItem == [kind |-> "none", id |-> 0, rate |-> 0]

TaskPc(c, t) ==
  CASE t = "router" -> routerPc[c]
    [] t = "bridge" -> bridgePc[c]
    [] t = "receiver" -> recvPc[c]

Running(c, t) == TaskPc(c, t) \notin Stopped \cup {"idle"}
\* a task that runs on although cancel() was called on it
Live_ignoringCancel(c, t) == Running(c, t)
\* a task runs its code only while no cancel() is pending on it
Live(c, t) == Running(c, t) /\ t \notin cancelReq[c]
AllStopped(c) == \A t \in Tasks : TaskPc(c, t) \in Stopped

Init ==
  /\ hpc = [c \in ClientIds |-> "idle"]
  /\ registry = {}
  /\ removals = [c \in ClientIds |-> 0]
  /\ ws = [c \in ClientIds |-> "none"]
  /\ sess = [c \in ClientIds |-> "none"]
  /\ closes = [c \in ClientIds |-> 0]
  /\ queue = [c \in ClientIds |-> <<>>]
  /\ defaultRate = [c \in ClientIds |-> 0]
  /\ readerRate = [c \in ClientIds |-> 0]
  /\ sessionId = [c \in ClientIds |-> 0]
  /\ routerPc = [c \in ClientIds |-> "idle"]
  /\ routerItem = [c \in ClientIds |-> NoItem]
  /\ bridgePc = [c \in ClientIds |-> "idle"]
  /\ recvPc = [c \in ClientIds |-> "idle"]
  /\ recvTodo = [c \in ClientIds |-> <<>>]
  /\ cancelReq = [c \in ClientIds |-> {}]
  /\ aborted = [c \in ClientIds |-> FALSE]
  /\ calls = [c \in ClientIds |-> <<>>]
  /\ out = [c \in ClientIds |-> <<>>]
  /\ inLog = [c \in ClientIds |-> <<>>]
  /\ evLog = [c \in ClientIds |-> <<>>]
  /\ nFaults = 0

\* ------------------------------------------------- the client's transport

\* websockets.serve accepts a connection and starts handle_client for it
accept(c) ==
  /\ hpc[c] = "idle"
  /\ hpc' = Upd(hpc, c, "hello")
  /\ ws' = Upd(ws, c, "open")
  /\ UNCHANGED <<registry, removals, sess, closes, queue, defaultRate,
                 readerRate, sessionId, routerPc, routerItem, bridgePc,
                 recvPc, recvTodo, cancelReq, aborted, calls, out, inLog,
                 evLog, nFaults>>

\* the client goes away: reads end, writes raise ConnectionClosed
client_disconnect(c) ==
  /\ ws[c] = "open"
  /\ ws' = Upd(ws, c, "closed")
  /\ UNCHANGED <<hpc, registry, removals, sess, closes, queue, defaultRate,
                 readerRate, sessionId, routerPc, routerItem, bridgePc,
                 recvPc, recvTodo, cancelReq, aborted, calls, out, inLog,
                 evLog, nFaults>>

\* ------------------------------------------ common.py: handle_client

\* await websocket.send({"type": "ready"}), before the try: a closed
\* transport raises out of handle_client, which has registered nothing yet
handle_client_ready(c) ==
  /\ hpc[c] = "hello"
  /\ IF ws[c] = "open"
       THEN /\ out' = Upd(out, c, Append(out[c], Msg("ready", 0)))
            /\ hpc' = Upd(hpc, c, "process")
       ELSE /\ out' = out
            /\ hpc' = Upd(hpc, c, "done")
  /\ UNCHANGED <<registry, removals, ws, sess, closes, queue, defaultRate,
                 readerRate, sessionId, routerPc, routerItem, bridgePc,
                 recvPc, recvTodo, cancelReq, aborted, calls, inLog, evLog,
                 nFaults>>

\* a handle_client whose finally leaves the registry as it is
handle_client_finally_keeping(c) ==
  /\ hpc[c] = "finally"
  /\ hpc' = Upd(hpc, c, "done")
  /\ UNCHANGED <<registry, removals, ws, sess, closes, queue, defaultRate,
                 readerRate, sessionId, routerPc, routerItem, bridgePc,
                 recvPc, recvTodo, cancelReq, aborted, calls, out, inLog,
                 evLog, nFaults>>

\* a handle_client whose finally empties the whole registry
handle_client_finally_clearing(c) ==
  /\ hpc[c] = "finally"
  /\ hpc' = Upd(hpc, c, "done")
  /\ registry' = {}
  /\ removals' = Upd(removals, c, removals[c] + 1)
  /\ UNCHANGED <<ws, sess, closes, queue, defaultRate, readerRate, sessionId,
                 routerPc, routerItem, bridgePc, recvPc, recvTodo, cancelReq,
                 aborted, calls, out, inLog, evLog, nFaults>>

\* finally: if client_id in self.active_clients: del ...
handle_client_finally(c) ==
  /\ hpc[c] = "finally"
  /\ hpc' = Upd(hpc, c, "done")
  /\ IF c \in registry
       THEN /\ registry' = registry \ {c}
            /\ removals' = Upd(removals, c, removals[c] + 1)
       ELSE UNCHANGED <<registry, removals>>
  /\ UNCHANGED <<ws, sess, closes, queue, defaultRate, readerRate, sessionId,
                 routerPc, routerItem, bridgePc, recvPc, recvTodo, cancelReq,
                 aborted, calls, out, inLog, evLog, nFaults>>

\* ------------------------------- archive/main.py: process_audio, supervisor

\* self.active_clients[client_id] = websocket; the queue; the default rate
process_audio_start(c) ==
  /\ hpc[c] = "process"
  /\ hpc' = Upd(hpc, c, "connect")
  /\ registry' = registry \cup {c}
  /\ queue' = Upd(queue, c, <<>>)
  /\ defaultRate' = Upd(defaultRate, c, INPUT_SAMPLE_RATE_DEFAULT)
  /\ UNCHANGED <<removals, ws, sess, closes, readerRate, sessionId, routerPc,
                 routerItem, bridgePc, recvPc, recvTodo, cancelReq, aborted,
                 calls, out, inLog, evLog, nFaults>>

\* async with client.aio.live.connect(...): a failure is caught by
\* process_audio's except Exception, logged, and process_audio returns
process_audio_connect(c, ok) ==
  /\ hpc[c] = "connect"
  /\ IF ok
       THEN /\ sess' = Upd(sess, c, "open")
            /\ hpc' = Upd(hpc, c, "connected")
       ELSE /\ sess' = sess
            /\ hpc' = Upd(hpc, c, "finally")
  /\ UNCHANGED <<registry, removals, ws, closes, queue, defaultRate,
                 readerRate, sessionId, routerPc, routerItem, bridgePc,
                 recvPc, recvTodo, cancelReq, aborted, calls, out, inLog,
                 evLog, nFaults>>

\* a process_audio that starts the tasks without announcing the session
process_audio_tasks_unannounced(c) ==
  /\ hpc[c] = "connected"
  /\ hpc' = Upd(hpc, c, "wait")
  /\ routerPc' = Upd(routerPc, c, "recv")
  /\ bridgePc' = Upd(bridgePc, c, "get")
  /\ recvPc' = Upd(recvPc, c, "recv")
  /\ UNCHANGED <<registry, removals, ws, sess, closes, queue, defaultRate,
                 readerRate, sessionId, routerItem, recvTodo, cancelReq,
                 aborted, calls, out, inLog, evLog, nFaults>>

\* send "connected" (an exception is passed over), then create the three
\* tasks; each runs to its first await
process_audio_tasks(c) ==
  /\ hpc[c] = "connected"
  /\ hpc' = Upd(hpc, c, "wait")
  /\ out' = IF ws[c] = "open"
              THEN Upd(out, c, Append(out[c], Msg("connected", 0)))
              ELSE out
  /\ routerPc' = Upd(routerPc, c, "recv")
  /\ bridgePc' = Upd(bridgePc, c, "get")
  /\ recvPc' = Upd(recvPc, c, "recv")
  /\ UNCHANGED <<registry, removals, ws, sess, closes, queue, defaultRate,
                 readerRate, sessionId, routerItem, recvTodo, cancelReq,
                 aborted, calls, inLog, evLog, nFaults>>

\* a wait that also returns when the sender has ended
FirstCompleted_anyTask(c) == \E t \in Tasks : TaskPc(c, t) \in Stopped
\* asyncio.wait([ws_task, recv_task], return_when=FIRST_COMPLETED)
FirstCompleted(c) == routerPc[c] \in Stopped \/ recvPc[c] \in Stopped

\* for t in (ws_task, send_task, recv_task): if not t.done(): t.cancel()
process_audio_cancel(c) ==
  /\ hpc[c] = "wait"
  /\ FirstCompleted(c)
  /\ hpc' = Upd(hpc, c, "gather")
  /\ cancelReq' = Upd(cancelReq, c, {t \in Tasks : Running(c, t)})
  /\ UNCHANGED <<registry, removals, ws, sess, closes, queue, defaultRate,
                 readerRate, sessionId, routerPc, routerItem, bridgePc,
                 recvPc, recvTodo, aborted, calls, out, inLog, evLog,
                 nFaults>>

\* asyncio.gather(ws_task, send_task, recv_task, return_exceptions=True)
GatherDone_twoTasks(c) == routerPc[c] \in Stopped /\ recvPc[c] \in Stopped
GatherDone(c) == AllStopped(c)

\* the gather returns; leaving `async with` closes the remote session
process_audio_gather(c) ==
  /\ hpc[c] = "gather"
  /\ GatherDone(c)
  /\ hpc' = Upd(hpc, c, "finally")
  /\ sess' = Upd(sess, c, "closed")
  /\ closes' = Upd(closes, c, closes[c] + 1)
  /\ UNCHANGED <<registry, removals, ws, queue, defaultRate, readerRate,
                 sessionId, routerPc, routerItem, bridgePc, recvPc, recvTodo,
                 cancelReq, aborted, calls, out, inLog, evLog, nFaults>>

\* ------------------------------------------- archive/main.py: ws_reader

\* What ws_reader does with one frame, given its local client_sample_rate
\* (0 = not yet assigned: the assignment on line 103 makes the name local
\* to ws_reader, so the default of process_audio is never read).
\*   "continue" the frame is dropped, the loop goes on
\*   "error"    an exception reaches `except Exception`: the reader ends
\*   "put"      an item is enqueued, the rate becomes sr
\*   "text"     session.send(input=text, end_of_turn=True)
\*   "close"    websocket.close(), then break
ws_reader_effect(f, local) ==
  LET sr == IF f.rate # 0 THEN f.rate ELSE local IN
  CASE f.json = "invalid" -> [act |-> "continue", sr |-> local]
    [] f.json \in {"undecodable", "nonobject"} -> [act |-> "error", sr |-> local]
    [] f.type = "audio" ->
         IF f.data = "" THEN [act |-> "continue", sr |-> local]
         ELSE IF f.data = "bad" THEN [act |-> "error", sr |-> local]
         ELSE IF ~f.rateNum THEN [act |-> "error", sr |-> local]
         ELSE IF sr = 0 THEN [act |-> "error", sr |-> local]
         ELSE [act |-> "put", sr |-> sr]
    [] f.type = "end" -> [act |-> "put", sr |-> local]
    [] f.type = "text" ->
         IF f.data = "" THEN [act |-> "continue", sr |-> local]
         ELSE [act |-> "text", sr |-> local]
    [] f.type = "close" -> [act |-> "close", sr |-> local]
    [] OTHER -> [act |-> "continue", sr |-> local]

\* the item ws_reader enqueues for frame number n
ws_reader_item(f, n, sr) ==
  IF f.type = "end" THEN Sentinel(n) ELSE Chunk(n, sr)

\* asyncio.Queue.full() with maxsize=8
QueueFull(c) == Len(queue[c]) >= QUEUE_MAXSIZE

\* async for message in websocket: one frame f arrives and is handled up to
\* the next await that suspends (max bounds the frames of a connection)
ws_reader_recv(c, f, max) ==
  LET n == Len(inLog[c]) + 1
      e == ws_reader_effect(f, readerRate[c])
      item == ws_reader_item(f, n, e.sr)
  IN
  /\ Live(c, "router")
  /\ routerPc[c] = "recv"
  /\ ws[c] = "open"
  /\ n <= max
  /\ inLog' = Upd(inLog, c, Append(inLog[c], f))
  /\ readerRate' = Upd(readerRate, c, e.sr)
  /\ CASE e.act = "continue" ->
            UNCHANGED <<routerPc, routerItem, queue, calls, ws, nFaults>>
       [] e.act = "error" ->
            /\ routerPc' = Upd(routerPc, c, "error")
            /\ UNCHANGED <<routerItem, queue, calls, ws, nFaults>>
       [] e.act = "put" ->
            /\ IF QueueFull(c)
                 THEN /\ routerPc' = Upd(routerPc, c, "put")
                      /\ routerItem' = Upd(routerItem, c, item)
                      /\ queue' = queue
                 ELSE /\ queue' = Upd(queue, c, Append(queue[c], item))
                      /\ UNCHANGED <<routerPc, routerItem>>
            /\ UNCHANGED <<calls, ws, nFaults>>
       [] e.act = "text" ->
            \E ok \in CallOutcomes :
              /\ calls' = Upd(calls, c, Append(calls[c], Call("text", n, 0, ok)))
              /\ routerPc' = Upd(routerPc, c, IF ok THEN "sendText" ELSE "error")
              /\ nFaults' = IF ok THEN nFaults ELSE nFaults + 1
              /\ UNCHANGED <<routerItem, queue, ws>>
       [] e.act = "close" ->
            /\ ws' = Upd(ws, c, "closed")
            /\ routerPc' = Upd(routerPc, c, "closing")
            /\ UNCHANGED <<routerItem, queue, calls, nFaults>>
  /\ UNCHANGED <<hpc, registry, removals, sess, closes, defaultRate,
                 sessionId, bridgePc, recvPc, recvTodo, cancelReq, aborted,
                 out, evLog>>

\* a put that waited for room completes
ws_reader_put(c) ==
  /\ Live(c, "router")
  /\ routerPc[c] = "put"
  /\ ~QueueFull(c)
  /\ queue' = Upd(queue, c, Append(queue[c], routerItem[c]))
  /\ routerItem' = Upd(routerItem, c, NoItem)
  /\ routerPc' = Upd(routerPc, c, "recv")
  /\ UNCHANGED <<hpc, registry, removals, ws, sess, closes, defaultRate,
                 readerRate, sessionId, bridgePc, recvPc, recvTodo,
                 cancelReq, aborted, calls, out, inLog, evLog, nFaults>>

\* a reader that goes back to reading after websocket.close()
ws_reader_resume_readingOn(c) ==
  /\ Live(c, "router")
  /\ routerPc[c] \in {"sendText", "closing"}
  /\ routerPc' = Upd(routerPc, c, "recv")
  /\ UNCHANGED <<hpc, registry, removals, ws, sess, closes, queue,
                 defaultRate, readerRate, sessionId, routerItem, bridgePc,
                 recvPc, recvTodo, cancelReq, aborted, calls, out, inLog,
                 evLog, nFaults>>

\* session.send of a text turn returns; websocket.close() returns or
\* raises, and `finally: break` leaves the loop either way
ws_reader_resume(c) ==
  /\ Live(c, "router")
  /\ routerPc[c] \in {"sendText", "closing"}
  /\ routerPc' = Upd(routerPc, c, IF routerPc[c] = "closing" THEN "done"
                                  ELSE "recv")
  /\ UNCHANGED <<hpc, registry, removals, ws, sess, closes, queue,
                 defaultRate, readerRate, sessionId, routerItem, bridgePc,
                 recvPc, recvTodo, cancelReq, aborted, calls, out, inLog,
                 evLog, nFaults>>

\* the transport is closed: the iteration ends (or raises ConnectionClosed,
\* which except Exception logs); the reader ends
ws_reader_eof(c) ==
  /\ Live(c, "router")
  /\ routerPc[c] = "recv"
  /\ ws[c] = "closed"
  /\ routerPc' = Upd(routerPc, c, "done")
  /\ UNCHANGED <<hpc, registry, removals, ws, sess, closes, queue,
                 defaultRate, readerRate, sessionId, routerItem, bridgePc,
                 recvPc, recvTodo, cancelReq, aborted, calls, out, inLog,
                 evLog, nFaults>>

\* CancelledError at the reader's await: it is no Exception, so it leaves
\* ws_reader; inside `try: await websocket.close() finally: break` the break
\* discards it and the reader returns
ws_reader_cancelled(c) ==
  /\ "router" \in cancelReq[c]
  /\ Running(c, "router")
  /\ cancelReq' = Upd(cancelReq, c, cancelReq[c] \ {"router"})
  /\ routerPc' = Upd(routerPc, c, IF routerPc[c] = "closing" THEN "done"
                                  ELSE "cancelled")
  /\ routerItem' = Upd(routerItem, c, NoItem)
  /\ UNCHANGED <<hpc, registry, removals, ws, sess, closes, queue,
                 defaultRate, readerRate, sessionId, bridgePc, recvPc,
                 recvTodo, aborted, calls, out, inLog, evLog, nFaults>>

\* ----------------------------------------- archive/main.py: audio_sender

\* item = await audio_queue.get(): the oldest item and what stays queued
QueueGet_newestFirst(q) ==
  [item |-> q[Len(q)], rest |-> SubSeq(q, 1, Len(q) - 1)]
QueueGet(q) == [item |-> Head(q), rest |-> Tail(q)]

\* One turn of the sender's loop: dequeue an item and make the remote call
\* for it.  A sentinel commits the turn with session.send(end_of_turn=True):
\* an exception there is not caught inside the loop and ends the sender.  A
\* chunk goes to send_realtime_input: an exception is logged and the loop
\* goes on to the next get.
audio_sender_get(c) ==
  LET g == QueueGet(queue[c]) IN
  /\ Live(c, "bridge")
  /\ bridgePc[c] = "get"
  /\ queue[c] # <<>>
  /\ queue' = Upd(queue, c, g.rest)
  /\ \E ok \in CallOutcomes :
       /\ nFaults' = IF ok THEN nFaults ELSE nFaults + 1
       /\ IF g.item.kind = "end"
            THEN /\ calls' = Upd(calls, c,
                        Append(calls[c], Call("commit", g.item.id, 0, ok)))
                 /\ bridgePc' = Upd(bridgePc, c, IF ok THEN "commit" ELSE "error")
            ELSE /\ calls' = Upd(calls, c,
                        Append(calls[c],
                               Call("sendAudio", g.item.id, g.item.rate, ok)))
                 /\ bridgePc' = Upd(bridgePc, c, IF ok THEN "sendAudio" ELSE "get")
  /\ UNCHANGED <<hpc, registry, removals, ws, sess, closes, defaultRate,
                 readerRate, sessionId, routerPc, routerItem, recvPc,
                 recvTodo, cancelReq, aborted, out, inLog, evLog>>

\* the remote call returns; task_done(); back to the get
audio_sender_resume(c) ==
  /\ Live(c, "bridge")
  /\ bridgePc[c] \in {"sendAudio", "commit"}
  /\ bridgePc' = Upd(bridgePc, c, "get")
  /\ UNCHANGED <<hpc, registry, removals, ws, sess, closes, queue,
                 defaultRate, readerRate, sessionId, routerPc, routerItem,
                 recvPc, recvTodo, cancelReq, aborted, calls, out, inLog,
                 evLog, nFaults>>

\* a sender that takes the cancellation for a failure
audio_sender_cancelled_asError(c) ==
  /\ "bridge" \in cancelReq[c]
  /\ Running(c, "bridge")
  /\ cancelReq' = Upd(cancelReq, c, cancelReq[c] \ {"bridge"})
  /\ bridgePc' = Upd(bridgePc, c, "error")
  /\ UNCHANGED <<hpc, registry, removals, ws, sess, closes, queue,
                 defaultRate, readerRate, sessionId, routerPc, routerItem,
                 recvPc, recvTodo, aborted, calls, out, inLog, evLog,
                 nFaults>>

\* except asyncio.CancelledError: raise / pass: the sender ends, whatever is
\* still queued stays unsent
audio_sender_cancelled(c) ==
  /\ "bridge" \in cancelReq[c]
  /\ Running(c, "bridge")
  /\ cancelReq' = Upd(cancelReq, c, cancelReq[c] \ {"bridge"})
  /\ bridgePc' = Upd(bridgePc, c, "cancelled")
  /\ UNCHANGED <<hpc, registry, removals, ws, sess, closes, queue,
                 defaultRate, readerRate, sessionId, routerPc, routerItem,
                 recvPc, recvTodo, aborted, calls, out, inLog, evLog,
                 nFaults>>

\* --------------------------------------- archive/main.py: model_receiver

\* the messages model_receiver writes for event number n, in order
model_receiver_msgs(ev, n) ==
  (IF ev.parts > 0 THEN <<Msg("audio", n)>> ELSE <<>>)
  \o (IF ev.text THEN <<Msg("text", n)>> ELSE <<>>)
  \o (IF ev.tc THEN <<Msg("turn_complete", n), Msg("ready_for_input", n)>>
      ELSE <<>>)

\* a receiver that a failed write of an `audio` message ends as well
model_receiver_write_strict(todo, open, o) ==
  IF todo = <<>> THEN [pc |-> "recv", todo |-> <<>>, out |-> o]
  ELSE IF open
    THEN [pc |-> "send", todo |-> Tail(todo), out |-> Append(o, Head(todo))]
  ELSE [pc |-> "error", todo |-> <<>>, out |-> o]

\* Run the receiver to its next await: write the next message of todo; on a
\* closed transport the write raises, which is passed over for an "audio"
\* message (its own try/except) and ends the receiver for any other.
RECURSIVE model_receiver_write(_, _, _)
model_receiver_write(todo, open, o) ==
  IF todo = <<>> THEN [pc |-> "recv", todo |-> <<>>, out |-> o]
  ELSE IF open
    THEN [pc |-> "send", todo |-> Tail(todo), out |-> Append(o, Head(todo))]
  ELSE IF Head(todo).type = "audio"
    THEN model_receiver_write(Tail(todo), open, o)
  ELSE [pc |-> "error", todo |-> <<>>, out |-> o]

\* async for response in session.receive(): one event arrives
model_receiver_event(c, ev, max) ==
  LET n == Len(evLog[c]) + 1
      w == model_receiver_write(model_receiver_msgs(ev, n), ws[c] = "open",
                                out[c])
  IN
  /\ Live(c, "receiver")
  /\ recvPc[c] = "recv"
  /\ sess[c] = "open"
  /\ n <= max
  /\ evLog' = Upd(evLog, c, Append(evLog[c], ev))
  /\ recvPc' = Upd(recvPc, c, w.pc)
  /\ recvTodo' = Upd(recvTodo, c, w.todo)
  /\ out' = Upd(out, c, w.out)
  /\ UNCHANGED <<hpc, registry, removals, ws, sess, closes, queue,
                 defaultRate, readerRate, sessionId, routerPc, routerItem,
                 bridgePc, cancelReq, aborted, calls, inLog, nFaults>>

\* a websocket.send returns: on to the next write of the same event
model_receiver_resume(c) ==
  LET w == model_receiver_write(recvTodo[c], ws[c] = "open", out[c]) IN
  /\ Live(c, "receiver")
  /\ recvPc[c] = "send"
  /\ recvPc' = Upd(recvPc, c, w.pc)
  /\ recvTodo' = Upd(recvTodo, c, w.todo)
  /\ out' = Upd(out, c, w.out)
  /\ UNCHANGED <<hpc, registry, removals, ws, sess, closes, queue,
                 defaultRate, readerRate, sessionId, routerPc, routerItem,
                 bridgePc, cancelReq, aborted, calls, inLog, evLog, nFaults>>

\* a receiver that, at the end of the stream, releases the session itself
model_receiver_eof_releasing(c, how) ==
  /\ Live(c, "receiver")
  /\ recvPc[c] = "recv"
  /\ recvPc' = Upd(recvPc, c, how)
  /\ sess' = Upd(sess, c, "closed")
  /\ closes' = Upd(closes, c, closes[c] + 1)
  /\ UNCHANGED <<hpc, registry, removals, ws, queue, defaultRate, readerRate,
                 sessionId, routerPc, routerItem, bridgePc, recvTodo,
                 cancelReq, aborted, calls, out, inLog, evLog, nFaults>>

\* the remote stream ends ("done"), or session.receive() raises and
\* except Exception logs it ("error"): the receiver ends
model_receiver_eof(c, how) ==
  /\ Live(c, "receiver")
  /\ recvPc[c] = "recv"
  /\ recvPc' = Upd(recvPc, c, how)
  /\ UNCHANGED <<hpc, registry, removals, ws, sess, closes, queue,
                 defaultRate, readerRate, sessionId, routerPc, routerItem,
                 bridgePc, recvTodo, cancelReq, aborted, calls, out, inLog,
                 evLog, nFaults>>

\* except asyncio.CancelledError: pass
model_receiver_cancelled(c) ==
  /\ "receiver" \in cancelReq[c]
  /\ Running(c, "receiver")
  /\ cancelReq' = Upd(cancelReq, c, cancelReq[c] \ {"receiver"})
  /\ recvPc' = Upd(recvPc, c, "cancelled")
  /\ recvTodo' = Upd(recvTodo, c, <<>>)
  /\ UNCHANGED <<hpc, registry, removals, ws, sess, closes, queue,
                 defaultRate, readerRate, sessionId, routerPc, routerItem,
                 bridgePc, aborted, calls, out, inLog, evLog, nFaults>>

\* --------------------------------------- server.py: process_audio

\* self.active_clients[client_id] = websocket
server_process_audio_start(c) ==
  /\ hpc[c] = "process"
  /\ hpc' = Upd(hpc, c, "connect")
  /\ registry' = registry \cup {c}
  /\ UNCHANGED <<removals, ws, sess, closes, queue, defaultRate, readerRate,
                 sessionId, routerPc, routerItem, bridgePc, recvPc, recvTodo,
                 cancelReq, aborted, calls, out, inLog, evLog, nFaults>>

\* async with connect(...) as session: async with TaskGroup() as tg: the
\* queue (no maxsize) and the three tasks.  A failing connect raises into
\* handle_client, whose except Exception logs it.
server_process_audio_connect(c, ok) ==
  /\ hpc[c] = "connect"
  /\ IF ok
       THEN /\ sess' = Upd(sess, c, "open")
            /\ hpc' = Upd(hpc, c, "taskgroup")
            /\ queue' = Upd(queue, c, <<>>)
            /\ routerPc' = Upd(routerPc, c, "recv")
            /\ bridgePc' = Upd(bridgePc, c, "get")
            /\ recvPc' = Upd(recvPc, c, "recv")
       ELSE /\ hpc' = Upd(hpc, c, "finally")
            /\ UNCHANGED <<sess, queue, routerPc, bridgePc, recvPc>>
  /\ UNCHANGED <<registry, removals, ws, closes, defaultRate, readerRate,
                 sessionId, routerItem, recvTodo, cancelReq, aborted, calls,
                 out, inLog, evLog, nFaults>>

\* TaskGroup: the first task to raise makes the group cancel the others
server_taskgroup_abort(c) ==
  /\ hpc[c] = "taskgroup"
  /\ ~aborted[c]
  /\ \E t \in Tasks : TaskPc(c, t) = "failed"
  /\ aborted' = Upd(aborted, c, TRUE)
  /\ cancelReq' = Upd(cancelReq, c, {t \in Tasks : Running(c, t)})
  /\ UNCHANGED <<hpc, registry, removals, ws, sess, closes, queue,
                 defaultRate, readerRate, sessionId, routerPc, routerItem,
                 bridgePc, recvPc, recvTodo, calls, out, inLog, evLog,
                 nFaults>>

\* TaskGroup.__aexit__ returns (or raises the group's errors) once every
\* task has ended; leaving `async with connect` closes the remote session
server_taskgroup_exit(c) ==
  /\ hpc[c] = "taskgroup"
  /\ AllStopped(c)
  /\ hpc' = Upd(hpc, c, "finally")
  /\ sess' = Upd(sess, c, "closed")
  /\ closes' = Upd(closes, c, closes[c] + 1)
  /\ UNCHANGED <<registry, removals, ws, queue, defaultRate, readerRate,
                 sessionId, routerPc, routerItem, bridgePc, recvPc, recvTodo,
                 cancelReq, aborted, calls, out, inLog, evLog, nFaults>>

\* ------------------------------ server.py: handle_websocket_messages

\* What handle_websocket_messages does with one frame: a bytes message is
\* put on the queue as it is; a text message is parsed and only logged
\* (`end`, `text`) or ignored; every exception is caught inside the loop.
handle_websocket_messages_effect(f) ==
  IF f.form = "binary" THEN "put" ELSE "continue"

handle_websocket_messages_recv(c, f, max) ==
  LET n == Len(inLog[c]) + 1 IN
  /\ Live(c, "router")
  /\ routerPc[c] = "recv"
  /\ ws[c] = "open"
  /\ n <= max
  /\ inLog' = Upd(inLog, c, Append(inLog[c], f))
  /\ queue' = IF handle_websocket_messages_effect(f) = "put"
                THEN Upd(queue, c, Append(queue[c], Chunk(n, 0)))
                ELSE queue
  /\ UNCHANGED <<hpc, registry, removals, ws, sess, closes, defaultRate,
                 readerRate, sessionId, routerPc, routerItem, bridgePc,
                 recvPc, recvTodo, cancelReq, aborted, calls, out, evLog,
                 nFaults>>

\* the transport is closed: the iteration ends and the coroutine returns
\* ("done"), or ConnectionClosedError leaves the coroutine ("failed"): the
\* `async for` is outside the try
handle_websocket_messages_eof(c, how) ==
  /\ Live(c, "router")
  /\ routerPc[c] = "recv"
  /\ ws[c] = "closed"
  /\ routerPc' = Upd(routerPc, c, how)
  /\ UNCHANGED <<hpc, registry, removals, ws, sess, closes, queue,
                 defaultRate, readerRate, sessionId, routerItem, bridgePc,
                 recvPc, recvTodo, cancelReq, aborted, calls, out, inLog,
                 evLog, nFaults>>

\* ----------------------------------- server.py: process_and_send_audio

\* data = await audio_queue.get(); await session.send_realtime_input(...):
\* no try around the call, an exception leaves the coroutine
process_and_send_audio_get(c) ==
  LET g == QueueGet(queue[c]) IN
  /\ Live(c, "bridge")
  /\ bridgePc[c] = "get"
  /\ queue[c] # <<>>
  /\ queue' = Upd(queue, c, g.rest)
  /\ \E ok \in CallOutcomes :
       /\ nFaults' = IF ok THEN nFaults ELSE nFaults + 1
       /\ calls' = Upd(calls, c,
              Append(calls[c], Call("sendAudio", g.item.id, SEND_SAMPLE_RATE, ok)))
       /\ bridgePc' = Upd(bridgePc, c, IF ok THEN "sendAudio" ELSE "failed")
  /\ UNCHANGED <<hpc, registry, removals, ws, sess, closes, defaultRate,
                 readerRate, sessionId, routerPc, routerItem, recvPc,
                 recvTodo, cancelReq, aborted, out, inLog, evLog>>

\* the call returns; audio_queue.task_done(); back to the get
process_and_send_audio_resume(c) ==
  /\ Live(c, "bridge")
  /\ bridgePc[c] = "sendAudio"
  /\ bridgePc' = Upd(bridgePc, c, "get")
  /\ UNCHANGED <<hpc, registry, removals, ws, sess, closes, queue,
                 defaultRate, readerRate, sessionId, routerPc, routerItem,
                 recvPc, recvTodo, cancelReq, aborted, calls, out, inLog,
                 evLog, nFaults>>

\* ------------------------------------------ server.py: receive_and_play

\* a receive_and_play that keeps the new handle to itself
receive_and_play_msgs_noSessionId(ev, n) ==
  (IF ev.intr THEN <<Msg("interrupted", n)>> ELSE <<>>)
  \o [i \in 1..ev.parts |-> Msg("audio", n)]
  \o (IF ev.tc THEN <<Msg("turn_complete", n)>> ELSE <<>>)
  \o (IF ev.text THEN <<Msg("text", n)>> ELSE <<>>)

\* a receive_and_play that does not tell the client of an interruption
receive_and_play_msgs_noInterrupted(ev, n) ==
  (IF ev.handle # 0 THEN <<Msg("session_id", n)>> ELSE <<>>)
  \o [i \in 1..ev.parts |-> Msg("audio", n)]
  \o (IF ev.tc THEN <<Msg("turn_complete", n)>> ELSE <<>>)
  \o (IF ev.text THEN <<Msg("text", n)>> ELSE <<>>)

\* the messages receive_and_play writes for event number n, in order
receive_and_play_msgs(ev, n) ==
  (IF ev.handle # 0 THEN <<Msg("session_id", n)>> ELSE <<>>)
  \o (IF ev.intr THEN <<Msg("interrupted", n)>> ELSE <<>>)
  \o [i \in 1..ev.parts |-> Msg("audio", n)]
  \o (IF ev.tc THEN <<Msg("turn_complete", n)>> ELSE <<>>)
  \o (IF ev.text THEN <<Msg("text", n)>> ELSE <<>>)

\* Run the receiver to its next await: every write is unguarded, so on a
\* closed transport the exception leaves the coroutine.
receive_and_play_write(todo, open, o) ==
  IF todo = <<>> THEN [pc |-> "recv", todo |-> <<>>, out |-> o]
  ELSE IF open
    THEN [pc |-> "send", todo |-> Tail(todo), out |-> Append(o, Head(todo))]
  ELSE [pc |-> "failed", todo |-> <<>>, out |-> o]

receive_and_play_event(c, ev, max) ==
  LET n == Len(evLog[c]) + 1
      w == receive_and_play_write(receive_and_play_msgs(ev, n),
                                  ws[c] = "open", out[c])
  IN
  /\ Live(c, "receiver")
  /\ recvPc[c] = "recv"
  /\ sess[c] = "open"
  /\ n <= max
  /\ evLog' = Upd(evLog, c, Append(evLog[c], ev))
  /\ sessionId' = IF ev.handle # 0 THEN Upd(sessionId, c, ev.handle)
                  ELSE sessionId
  /\ recvPc' = Upd(recvPc, c, w.pc)
  /\ recvTodo' = Upd(recvTodo, c, w.todo)
  /\ out' = Upd(out, c, w.out)
  /\ UNCHANGED <<hpc, registry, removals, ws, sess, closes, queue,
                 defaultRate, readerRate, routerPc, routerItem, bridgePc,
                 cancelReq, aborted, calls, inLog, nFaults>>

receive_and_play_resume(c) ==
  LET w == receive_and_play_write(recvTodo[c], ws[c] = "open", out[c]) IN
  /\ Live(c, "receiver")
  /\ recvPc[c] = "send"
  /\ recvPc' = Upd(recvPc, c, w.pc)
  /\ recvTodo' = Upd(recvTodo, c, w.todo)
  /\ out' = Upd(out, c, w.out)
  /\ UNCHANGED <<hpc, registry, removals, ws, sess, closes, queue,
                 defaultRate, readerRate, sessionId, routerPc, routerItem,
                 bridgePc, cancelReq, aborted, calls, inLog, evLog, nFaults>>

\* session.receive() is exhausted: the transcripts are logged and
\* `while True` starts the next receive(); nothing else changes
receive_and_play_again(c) ==
  /\ Live(c, "receiver")
  /\ recvPc[c] = "recv"
  /\ sess[c] = "open"
  /\ UNCHANGED vars

\* session.receive() raises: the exception leaves the coroutine
receive_and_play_error(c) ==
  /\ Live(c, "receiver")
  /\ recvPc[c] = "recv"
  /\ recvPc' = Upd(recvPc, c, "failed")
  /\ UNCHANGED <<hpc, registry, removals, ws, sess, closes, queue,
                 defaultRate, readerRate, sessionId, routerPc, routerItem,
                 bridgePc, recvTodo, cancelReq, aborted, calls, out, inLog,
                 evLog, nFaults>>

\* CancelledError at the await of a task of the group: none of the three
\* coroutines catches it
server_task_cancelled(c, t) ==
  /\ t \in cancelReq[c]
  /\ Running(c, t)
  /\ cancelReq' = Upd(cancelReq, c, cancelReq[c] \ {t})
  /\ routerPc' = IF t = "router" THEN Upd(routerPc, c, "cancelled") ELSE routerPc
  /\ bridgePc' = IF t = "bridge" THEN Upd(bridgePc, c, "cancelled") ELSE bridgePc
  /\ recvPc' = IF t = "receiver" THEN Upd(recvPc, c, "cancelled") ELSE recvPc
  /\ recvTodo' = IF t = "receiver" THEN Upd(recvTodo, c, <<>>) ELSE recvTodo
  /\ UNCHANGED <<hpc, registry, removals, ws, sess, closes, queue,
                 defaultRate, readerRate, sessionId, routerItem, aborted,
                 calls, out, inLog, evLog, nFaults>>

\* ------------------------------------------------------- specifications

\* archive/main.py serving the clients of Conn, which send frames of Fr (at
\* most maxF each) while the remote sessions emit events of Ev (at most
\* maxE).  ws_reader_put, the completion of a put that found the queue
\* full, is left to ArchiveBurstNext: with maxF < QUEUE_MAXSIZE no put waits.
ArchiveNext(Conn, Fr, maxF, Ev, maxE) ==
  \E c \in Conn :
    \/ accept(c)
    \/ client_disconnect(c)
    \/ handle_client_ready(c)
    \/ process_audio_start(c)
    \/ \E ok \in BOOLEAN : process_audio_connect(c, ok)
    \/ process_audio_tasks(c)
    \/ process_audio_cancel(c)
    \/ process_audio_gather(c)
    \/ handle_client_finally(c)
    \/ \E f \in Fr : ws_reader_recv(c, f, maxF)
    \/ ws_reader_resume(c)
    \/ ws_reader_eof(c)
    \/ ws_reader_cancelled(c)
    \/ audio_sender_get(c)
    \/ audio_sender_resume(c)
    \/ audio_sender_cancelled(c)
    \/ \E ev \in Ev : model_receiver_event(c, ev, maxE)
    \/ model_receiver_resume(c)
    \/ \E how \in {"done", "error"} : model_receiver_eof(c, how)
    \/ model_receiver_cancelled(c)

ArchiveBurstNext(Conn, Fr, maxF, Ev, maxE) ==
  \/ ArchiveNext(Conn, Fr, maxF, Ev, maxE)
  \/ \E c \in Conn : ws_reader_put(c)

\* server.py serving the clients of Conn
ServerNext(Conn, Fr, maxF, Ev, maxE) ==
  \E c \in Conn :
    \/ accept(c)
    \/ client_disconnect(c)
    \/ handle_client_ready(c)
    \/ server_process_audio_start(c)
    \/ \E ok \in BOOLEAN : server_process_audio_connect(c, ok)
    \/ server_taskgroup_abort(c)
    \/ server_taskgroup_exit(c)
    \/ handle_client_finally(c)
    \/ \E f \in Fr : handle_websocket_messages_recv(c, f, maxF)
    \/ \E how \in {"done", "failed"} : handle_websocket_messages_eof(c, how)
    \/ process_and_send_audio_get(c)
    \/ process_and_send_audio_resume(c)
    \/ \E ev \in Ev : receive_and_play_event(c, ev, maxE)
    \/ receive_and_play_resume(c)
    \/ receive_and_play_again(c)
    \/ receive_and_play_error(c)
    \/ \E t \in Tasks : server_task_cancelled(c, t)

\* the frames of an audio or text turn, well formed or not
TurnFrames ==
  {F_audio, F_audioNoRate, F_audioBad, F_end, F_text, F_close}
\* the frames server.py tells apart
ServerFrames == {F_binary, F_end, F_text, F_badJson, F_nonObject}
\* the events server.py tells apart
ServerEvents == {E_audio2, E_doneText, E_intrAudio, E_handle}

\* archive/main.py, one client, the inbound side in detail
Next == ArchiveNext({"c1"}, TurnFrames, MaxFrames, {E_audioDone}, FewEvents)
Spec == Init /\ [][Next]_vars

\* archive/main.py, one client, every shape of frame
FramesNext ==
  ArchiveNext({"c1"}, ClientFrames, FewFrames, {E_audioDone}, FewEvents)
SpecFrames == Init /\ [][FramesNext]_vars

\* archive/main.py, one client, the outbound side in detail
EventsNext ==
  ArchiveNext({"c1"}, {F_audio, F_end, F_close}, FewFrames, RemoteEvents,
              MaxEvents)
SpecEvents == Init /\ [][EventsNext]_vars

\* server.py, one client
ServerNextOne ==
  ServerNext({"c1"}, ServerFrames, MaxFrames, ServerEvents, FewEvents)
SpecServer == Init /\ [][ServerNextOne]_vars

\* server.py, one client, the outbound side in detail
ServerEventsNext ==
  ServerNext({"c1"}, {F_binary}, FewEvents,
             {E_audioDone, E_intr, E_handle, E_handle2, E_handleIntr},
             MaxEvents)
SpecServerEvents == Init /\ [][ServerEventsNext]_vars

\* server.py, one client streaming a burst of binary audio frames
ServerBurstNext == ServerNext({"c1"}, {F_binary}, MaxBurst, {E_done}, FewEvents)
SpecServerBurst == Init /\ [][ServerBurstNext]_vars
\* archive/main.py, one client streaming a burst of audio frames
BurstNext ==
  ArchiveBurstNext({"c1"}, BurstFrames, MaxBurst, {E_done}, FewEvents)
SpecBurst == Init /\ [][BurstNext]_vars

\* archive/main.py serving a client that stays connected and streams audio
\* to a healthy remote session
SteadyNext(c, maxF) ==
  \/ accept(c)
  \/ handle_client_ready(c)
  \/ process_audio_start(c)
  \/ process_audio_connect(c, TRUE)
  \/ process_audio_tasks(c)
  \/ ws_reader_recv(c, F_audio, maxF)
  \/ audio_sender_get(c)
  \/ audio_sender_resume(c)

\* archive/main.py, two clients: c1 goes through every failure and teardown
\* while c2 is being served
TwoNext ==
  \/ ArchiveNext({"c1"}, {F_audio, F_audioBad, F_close}, FewEvents, {E_done},
                 FewEvents)
  \/ SteadyNext("c2", FewEvents)
SpecTwo == Init /\ [][TwoNext]_vars

\* archive/main.py, one client mixing audio turns and text turns: two
\* chunks, their `end` and a text frame fit
TextNext ==
  ArchiveNext({"c1"}, {F_audio, F_end, F_text}, MaxFrames + 1, {E_done},
              FewEvents)
SpecText == Init /\ [][TextNext]_vars

\* archive/main.py, one client that ends a turn with its first frame, if
\* ever, and then streams audio without pause
CommitNext ==
  /\ ArchiveBurstNext({"c1"}, {F_audio, F_end, F_close}, MaxBurst, {E_done},
                      FewEvents)
  /\ \A i \in 2..Len(inLog'["c1"]) : inLog'["c1"][i].type # "end"
SpecCommit == Init /\ [][CommitNext]_vars

\* The event loop runs every task that is ready: each coroutine's steps that
\* wait for nothing from the client or the remote session are weakly fair.
\* The client's frames and disconnect, the remote events, the end or failure
\* of the remote stream are not.
ArchiveFair(c) ==
  /\ WF_vars(handle_client_ready(c))
  /\ WF_vars(process_audio_start(c))
  /\ WF_vars(\E ok \in BOOLEAN : process_audio_connect(c, ok))
  /\ WF_vars(process_audio_tasks(c))
  /\ WF_vars(process_audio_cancel(c))
  /\ WF_vars(process_audio_gather(c))
  /\ WF_vars(handle_client_finally(c))
  /\ WF_vars(ws_reader_put(c) \/ ws_reader_resume(c) \/ ws_reader_eof(c))
  /\ WF_vars(ws_reader_cancelled(c))
  /\ WF_vars(audio_sender_get(c) \/ audio_sender_resume(c))
  /\ WF_vars(audio_sender_cancelled(c))
  /\ WF_vars(model_receiver_resume(c))
  /\ WF_vars(model_receiver_cancelled(c))

ServerFair(c) ==
  /\ WF_vars(handle_client_ready(c))
  /\ WF_vars(server_process_audio_start(c))
  /\ WF_vars(\E ok \in BOOLEAN : server_process_audio_connect(c, ok))
  /\ WF_vars(server_taskgroup_abort(c))
  /\ WF_vars(server_taskgroup_exit(c))
  /\ WF_vars(handle_client_finally(c))
  /\ WF_vars(\E how \in {"done", "failed"} : handle_websocket_messages_eof(c, how))
  /\ WF_vars(process_and_send_audio_get(c) \/ process_and_send_audio_resume(c))
  /\ WF_vars(receive_and_play_resume(c))
  /\ \A t \in Tasks : WF_vars(server_task_cancelled(c, t))

\* archive/main.py and server.py, one client, a short exchange, fair
LeanNext == ArchiveNext({"c1"}, {F_audio, F_end, F_close}, FewFrames,
                        {E_audioDone}, FewEvents)
FairSpec == Init /\ [][LeanNext]_vars /\ ArchiveFair("c1")
ServerLeanNext == ServerNext({"c1"}, {F_binary, F_end}, FewFrames, {E_audioDone},
                             FewEvents)
FairSpecServer == Init /\ [][ServerLeanNext]_vars /\ ServerFair("c1")
\* archive/main.py, one client, audio, text and turn-completing events, fair
OutNext ==
  ArchiveNext({"c1"}, {F_audio, F_close}, FewEvents,
              {E_audio, E_text, E_audioDone}, MaxEvents)
FairSpecOut == Init /\ [][OutNext]_vars /\ ArchiveFair("c1")

\* ------------------------------------------------------------- properties

IsPrefix(a, b) == Len(a) <= Len(b) /\ SubSeq(b, 1, Len(a)) = a
Last(q) == q[Len(q)]
OwnEnd == {"done", "error"}

\* a frame that carries an audio payload
CarriesAudio(f) == f.json = "object" /\ f.type = "audio" /\ f.data # ""
IsEnd(f) == f.json = "object" /\ f.type = "end"

\* the frames of inLog with their numbers
Numbered(c) == [i \in 1..Len(inLog[c]) |-> [f |-> inLog[c][i], n |-> i]]
ItemOfFrame(r) == [kind |-> IF IsEnd(r.f) THEN "end" ELSE "chunk", id |-> r.n]
ItemOfCall(k) == [kind |-> IF k.op = "commit" THEN "end" ELSE "chunk", id |-> k.id]
MapSeq(q, Op(_)) == [i \in 1..Len(q) |-> Op(q[i])]

\* what the client submitted, in order: one chunk per audio frame with a
\* payload, one end-of-turn per `end` frame
Submitted(c) ==
  MapSeq(SelectSeq(Numbered(c), LAMBDA r : CarriesAudio(r.f) \/ IsEnd(r.f)),
         ItemOfFrame)
\* what the remote session was called with, in order: sendAudio and commit
Forwarded(c) ==
  MapSeq(SelectSeq(calls[c], LAMBDA k : k.op \in {"sendAudio", "commit"}),
         ItemOfCall)
\* reader and sender both idle at their await with nothing queued
Drained(c) ==
  /\ Live(c, "router") /\ routerPc[c] = "recv"
  /\ Live(c, "bridge") /\ bridgePc[c] = "get"
  /\ queue[c] = <<>>

\* C1: on one connection the sendAudio and commit calls reach the remote
\* session in the order the client submitted the audio frames and `end`
\* frames: the calls made so far are an initial part of the submitted
\* sequence, so N audio frames and an `end` give the N chunks in order and
\* then one commit, issued after the Nth forward; and once reader and
\* sender are idle with an empty queue, every submitted item has been called.
C1_SubmissionOrder ==
  \A c \in ClientIds :
    /\ IsPrefix(Forwarded(c), Submitted(c))
    /\ Drained(c) => Forwarded(c) = Submitted(c)

\* two audio frames and an `end` were read, and their two chunks and the
\* commit have been called, in that order
C1_Witness ==
  /\ Len(inLog["c1"]) = 3
  /\ \A i \in 1..2 : CarriesAudio(inLog["c1"][i])
  /\ IsEnd(inLog["c1"][3])
  /\ Len(calls["c1"]) = 3
  /\ calls["c1"][1].op = "sendAudio" /\ calls["c1"][1].id = 1
  /\ calls["c1"][2].op = "sendAudio" /\ calls["c1"][2].id = 2
  /\ calls["c1"][3].op = "commit"

\* an audio frame as the interface describes it: a base64 payload and a
\* numeric rate, or none
WellFormedAudio(f) == CarriesAudio(f) /\ f.data = "ok" /\ f.rateNum
Delivered(c) ==
  MapSeq(SelectSeq(Numbered(c), LAMBDA r : WellFormedAudio(r.f) \/ IsEnd(r.f)),
         ItemOfFrame)
\* the client is connected, the remote stream has not ended, no call failed
Healthy(c) == ws[c] = "open" /\ recvPc[c] \notin OwnEnd /\ nFaults = 0
\* reader and sender hold nothing and nothing is queued
AtRest(c) ==
  /\ routerPc[c] \in {"recv"} \cup Stopped
  /\ bridgePc[c] \in {"get"} \cup Stopped
  /\ queue[c] = <<>>

\* C1 as stated: for every sequence of audio frames followed by `end`, while
\* the client stays connected and the remote session works, the remote
\* session is called with the chunks in submission order and then the commit:
\* the calls so far are an initial part of what was submitted, and when
\* reader and sender hold nothing, all of it has been called.
C1_Delivery ==
  \A c \in ClientIds :
    Healthy(c) =>
      /\ IsPrefix(Forwarded(c), Delivered(c))
      /\ AtRest(c) => Forwarded(c) = Delivered(c)

\* C2: the queue never holds more than QUEUE_MAXSIZE items.
C2_QueueBounded ==
  \A c \in ClientIds : Len(queue[c]) <= QUEUE_MAXSIZE

\* C3: on the client transport a turn_complete message is followed at once
\* by ready_for_input: no other message comes next, and the receiver does
\* not go back to waiting for the remote session with turn_complete as the
\* last message written.
C3_ReadyFollows ==
  \A c \in ClientIds :
    /\ \A i \in 1..(Len(out[c]) - 1) :
         out[c][i].type = "turn_complete" => out[c][i + 1].type = "ready_for_input"
    /\ (out[c] # <<>> /\ recvPc[c] = "recv") => Last(out[c]).type # "turn_complete"

\* C4: the remote session is closed at most once and the registry entry
\* removed at most once; when reader and receiver have both ended on their
\* own (client disconnect and remote stream end, in either order or before
\* the supervisor ran) and handle_client has returned, there was exactly one
\* close and exactly one removal.
C4_TeardownOnce ==
  \A c \in ClientIds :
    /\ closes[c] <= 1
    /\ removals[c] <= 1
    /\ (hpc[c] = "done" /\ routerPc[c] \in OwnEnd /\ recvPc[c] \in OwnEnd)
         => (closes[c] = 1 /\ removals[c] = 1 /\ c \notin registry)

\* both ended on their own before the supervisor cancelled anything but the
\* sender, and teardown is over
C4_Witness ==
  /\ hpc["c1"] = "done"
  /\ routerPc["c1"] = "done" /\ recvPc["c1"] = "done"
  /\ bridgePc["c1"] = "cancelled"
  /\ closes["c1"] = 1 /\ removals["c1"] = 1

\* C5: the remote session is closed at most once, and once by the time
\* handle_client returns if it was opened; it is closed only when reader,
\* sender and receiver have all stopped; and the registry entry of a client
\* whose session was opened is removed only after that close.
C5_CloseAfterTasks ==
  \A c \in ClientIds :
    /\ closes[c] <= 1
    /\ sess[c] = "closed" => (closes[c] = 1 /\ AllStopped(c))
    /\ hpc[c] = "done" => sess[c] \in {"none", "closed"}
    /\ (removals[c] > 0 /\ sess[c] # "none") => sess[c] = "closed"

\* the session is closed, the entry removed, after a teardown that had to
\* cancel the sender and the receiver
C5_Witness ==
  /\ sess["c1"] = "closed" /\ removals["c1"] = 1
  /\ bridgePc["c1"] = "cancelled" /\ recvPc["c1"] = "cancelled"
TornDown(c) ==
  /\ hpc[c] = "done" /\ AllStopped(c)
  /\ sess[c] = "closed" /\ c \notin registry

\* C6: once the reader or the receiver has ended, teardown follows: the
\* other tasks are cancelled, all three end, the remote session is closed
\* and the client leaves the registry.
C6_TeardownFollows ==
  \A c \in {"c1"} :
    (routerPc[c] \in Stopped \/ recvPc[c] \in Stopped) ~> TornDown(c)

Count(q, Test(_)) == Len(SelectSeq(q, Test))
\* the receiver has gone past event n and is running
Handled(c, n) ==
  /\ recvPc[c] \notin Stopped
  /\ n < Len(evLog[c]) \/ recvPc[c] = "recv"

\* C7: every remote event with the interruption flag set gives exactly one
\* `interrupted` message to the client: never more than one, and one once
\* the receiver has handled the event.
C7_OneInterrupted ==
  \A c \in ClientIds : \A n \in 1..Len(evLog[c]) :
    LET k == Count(out[c], LAMBDA m : m.type = "interrupted" /\ m.ev = n) IN
    evLog[c][n].intr => (k <= 1 /\ (Handled(c, n) => k = 1))

\* a text frame that is not a well-formed control frame
Malformed(f) ==
  /\ f.form = "text"
  /\ \/ f.json # "object"
     \/ f.type \notin {"audio", "end", "text", "close"}
     \/ f.type = "audio" /\ f.data # "" /\ (f.data = "bad" \/ ~f.rateNum \/ f.rate = 0)
\* the reader took a frame in this step
Read(c) == Len(inLog'[c]) = Len(inLog[c]) + 1

\* C8: a malformed or unrecognized frame never ends the reader.
C8_MalformedSurvived ==
  [][\A c \in ClientIds :
       (Read(c) /\ Malformed(Last(inLog'[c]))) => routerPc'[c] \notin Stopped]_vars

\* the sender made a call in this step
Called(c) == Len(calls'[c]) = Len(calls[c]) + 1

\* C9: a failed audio forward does not stop the sender.
C9_ForwardFailureSurvived ==
  [][\A c \in ClientIds :
       (Called(c) /\ Last(calls'[c]).op = "sendAudio" /\ ~Last(calls'[c]).ok)
         => bridgePc'[c] \notin Stopped]_vars

\* C10: reading a `text` frame with non-empty data makes exactly one text
\* call on the remote session and leaves the queue as it was.
C10_TextDirect ==
  [][\A c \in ClientIds :
       (Read(c) /\ Last(inLog'[c]).json = "object"
          /\ Last(inLog'[c]).type = "text" /\ Last(inLog'[c]).data # "")
         => /\ Called(c)
            /\ Last(calls'[c]).op = "text"
            /\ queue'[c] = queue[c]]_vars

\* the messages of out that event n produced, by type
OutOf(c, n, type) ==
  SelectSeq(out[c], LAMBDA m : m.ev = n /\ m.type = type)
\* the position in a turn's output of a message of this type
Rank(type) ==
  CASE type = "audio" -> 1
    [] type = "turn_complete" -> 2
    [] type = "ready_for_input" -> 3
    [] OTHER -> 0
\* what the receiver wrote for the remote events, the greetings left out
Replies(c) == SelectSeq(out[c], LAMBDA m : m.ev > 0)

\* C11: outbound messages are written in the order the receiver produced
\* them: the messages of an earlier event come before those of a later one,
\* within one event `audio` comes before `turn_complete` and that before
\* `ready_for_input`, and once the receiver has handled an event that
\* carries audio and completes the turn, the client has been written its
\* audio, one turn_complete and one ready_for_input.
C11_OutboundOrder ==
  \A c \in ClientIds :
    LET r == Replies(c) IN
    /\ \A i \in 1..(Len(r) - 1) :
         /\ r[i].ev <= r[i + 1].ev
         /\ (r[i].ev = r[i + 1].ev /\ Rank(r[i].type) > 0 /\ Rank(r[i + 1].type) > 0)
              => Rank(r[i].type) <= Rank(r[i + 1].type)
    /\ \A n \in 1..Len(evLog[c]) :
         (Handled(c, n) /\ evLog[c][n].tc) =>
           /\ evLog[c][n].parts > 0 => Len(OutOf(c, n, "audio")) >= 1
           /\ Len(OutOf(c, n, "turn_complete")) = 1
           /\ Len(OutOf(c, n, "ready_for_input")) = 1

\* opening the remote session failed for c and handle_client has returned
ConnectFailed(c) == hpc[c] = "done" /\ removals[c] = 1 /\ sess[c] = "none"

\* C12: when opening the remote session fails, no task is started, the
\* client's registry entry is removed, and a client whose transport is still
\* open has been written a message that reports the failure.
C12_ConnectFailure ==
  \A c \in ClientIds :
    ConnectFailed(c) =>
      /\ c \notin registry
      /\ \A t \in Tasks : TaskPc(c, t) = "idle"
      /\ ws[c] = "open" => \E i \in 1..Len(out[c]) : out[c][i].type = "error"

\* process_audio has registered c and handle_client's finally has not run
Registered(c) == hpc[c] \in {"connect", "connected", "wait", "gather",
                             "taskgroup", "finally"}

\* C13: a client has a registry entry exactly from the start of
\* process_audio to the finally of handle_client; the entry is removed once
\* and never twice, whichever task ended the connection; once handle_client
\* has returned the identifier is absent, removed once if process_audio ran
\* and never if it did not.
C13_RegistryEntry ==
  \A c \in ClientIds :
    /\ removals[c] <= 1
    /\ c \in registry <=> Registered(c)
    /\ c \in registry => removals[c] = 0
    /\ hpc[c] = "done" => removals[c] = (IF out[c] # <<>> THEN 1 ELSE 0)

\* the receiver saw the remote stream end, the reader was cancelled, and
\* the entry is gone after one removal
C13_Witness ==
  /\ hpc["c1"] = "done" /\ "c1" \notin registry /\ removals["c1"] = 1
  /\ recvPc["c1"] = "done" /\ routerPc["c1"] = "cancelled"

\* C14: a task on which the supervisor requested cancellation never ends in
\* an error state: the cancellation is delivered at its await and leaves it
\* cancelled (or returned); and once the three tasks have stopped the
\* supervisor's gather returns and the teardown goes on.
C14_CancelNotError ==
  [][\A c \in ClientIds :
       /\ \A t \in cancelReq[c] : TaskPc(c, t)' \notin {"error", "failed"}
       /\ (hpc[c] = "gather" /\ AllStopped(c)) => ENABLED process_audio_gather(c)
       /\ (hpc[c] = "gather" /\ hpc'[c] # "gather") => hpc'[c] = "finally"]_vars

\* the reader was cancelled while its put waited on the full queue, the
\* sender at its get, and the supervisor has gone past the gather
C14_Witness ==
  /\ Len(queue["c1"]) = QUEUE_MAXSIZE
  /\ Len(inLog["c1"]) = QUEUE_MAXSIZE + 1
  /\ routerPc["c1"] = "cancelled" /\ bridgePc["c1"] = "cancelled"
  /\ hpc["c1"] \in {"finally", "done"}

\* what a connection owns: its place in handle_client, its transport, its
\* remote session, its queue and its three tasks
Own(c) ==
  <<hpc[c], ws[c], sess[c], closes[c], queue[c], routerPc[c], routerItem[c],
    bridgePc[c], recvPc[c], recvTodo[c], cancelReq[c], c \in registry>>

\* C15: a step of one client's connection, a failure or a teardown step
\* included, leaves the other client's registry entry, queue, remote
\* session and tasks as they were; of the registry it changes nothing but
\* its own entry.
C15_ClientsIsolated ==
  [][\A c, d \in ClientIds :
       (c # d /\ Own(c)' # Own(c)) =>
         /\ Own(d)' = Own(d)
         /\ registry' \ {c} = registry \ {c}]_vars

\* c1 ended on a reader error and is torn down and deregistered, while c2
\* is registered with its session open, its tasks running and a chunk queued
C15_Witness ==
  /\ routerPc["c1"] = "error" /\ hpc["c1"] = "done" /\ sess["c1"] = "closed"
  /\ registry = {"c2"}
  /\ sess["c2"] = "open" /\ queue["c2"] # <<>>
  /\ routerPc["c2"] = "recv" /\ bridgePc["c2"] = "get" /\ recvPc["c2"] = "recv"

\* the handle of the most recent event of log that carried one, 0 for none
LastHandle(log) ==
  LET idx == {i \in 1..Len(log) : log[i].handle # 0} IN
  IF idx = {} THEN 0
  ELSE log[CHOOSE i \in idx : \A j \in idx : j <= i].handle

\* C16: every remote event that carries a new resumption handle gives one
\* `session_id` message for that event, never two, and one once the
\* receiver has handled the event; no other event gives one; and the handle
\* the receiver holds is the one of the most recent such event.
C16_SessionHandle ==
  \A c \in ClientIds :
    /\ \A n \in 1..Len(evLog[c]) :
         LET k == Len(OutOf(c, n, "session_id")) IN
         IF evLog[c][n].handle # 0
           THEN k <= 1 /\ (Handled(c, n) => k = 1)
           ELSE k = 0
    /\ sessionId[c] = LastHandle(evLog[c])

\* two events brought two different handles: the second is the current
\* one, and the client was written a session_id for each
C16_Witness ==
  /\ Len(evLog["c1"]) = 2
  /\ evLog["c1"][1].handle # 0 /\ evLog["c1"][2].handle # 0
  /\ evLog["c1"][1].handle # evLog["c1"][2].handle
  /\ sessionId["c1"] = evLog["c1"][2].handle
  /\ Len(OutOf("c1", 1, "session_id")) = 1
  /\ Len(OutOf("c1", 2, "session_id")) = 1

\* call number i of c was a remote call of this kind for frame number n
CallFor(c, i, op, n) == calls[c][i].op = op /\ calls[c][i].id = n

\* C17: there are never more commit calls than `end` frames read, each
\* commit is for an `end` frame of its own; a commit is issued only after
\* every audio chunk read before its `end` has been forwarded, and a chunk
\* read after an `end` is forwarded only after the commit for that `end`.
C17_CommitPerEnd ==
  \A c \in ClientIds :
    /\ Count(calls[c], LAMBDA k : k.op = "commit")
         <= Count(inLog[c], IsEnd)
    /\ \A i \in 1..Len(calls[c]) :
         LET n == calls[c][i].id IN
         /\ calls[c][i].op = "commit" =>
              /\ IsEnd(inLog[c][n])
              /\ \A j \in 1..(i - 1) : ~CallFor(c, j, "commit", n)
              /\ \A k \in 1..(n - 1) :
                   CarriesAudio(inLog[c][k]) =>
                     \E j \in 1..(i - 1) : CallFor(c, j, "sendAudio", k)
         /\ calls[c][i].op = "sendAudio" =>
              \A m \in 1..(n - 1) :
                IsEnd(inLog[c][m]) =>
                  \E j \in 1..(i - 1) : CallFor(c, j, "commit", m)

\* two turns: a chunk and its `end`, then a chunk of the next turn,
\* forwarded, committed and forwarded in that order
C17_Witness ==
  /\ Len(inLog["c1"]) = 3
  /\ CarriesAudio(inLog["c1"][1]) /\ IsEnd(inLog["c1"][2])
  /\ CarriesAudio(inLog["c1"][3])
  /\ Len(calls["c1"]) = 3
  /\ CallFor("c1", 1, "sendAudio", 1)
  /\ CallFor("c1", 2, "commit", 2)
  /\ CallFor("c1", 3, "sendAudio", 3)

IsClose(f) == f.json = "object" /\ f.type = "close"
\* the reader has read a `close` frame
CloseRead(c) == \E i \in 1..Len(inLog[c]) : IsClose(inLog[c][i])

\* C18: once the reader has read a `close` frame the transport is closed,
\* that frame is the last one the reader takes, the reader is closing or
\* has returned (also when the close raised or was cancelled), nothing
\* queued and no remote call stems from that frame or a later one; and
\* the teardown follows.
C18_CloseStops ==
  /\ [](\A c \in ClientIds :
          CloseRead(c) =>
            /\ IsClose(Last(inLog[c]))
            /\ Count(inLog[c], IsClose) = 1
            /\ ws[c] = "closed"
            /\ routerPc[c] \in {"closing", "done"}
            /\ routerItem[c] = NoItem
            /\ \A i \in 1..Len(queue[c]) : queue[c][i].id < Len(inLog[c])
            /\ \A i \in 1..Len(calls[c]) : calls[c][i].id < Len(inLog[c]))
  /\ CloseRead("c1") ~> TornDown("c1")

\* an audio frame and then `close` were read; the reader returned and the
\* connection is torn down
C18_Witness ==
  /\ Len(inLog["c1"]) = 2 /\ IsClose(inLog["c1"][2])
  /\ routerPc["c1"] = "done"
  /\ TornDown("c1")

\* the session's current sample rate after the frames of log: the rate
\* declared by the most recent audio frame that declared one, the default
\* when none did
CurrentRate(log) ==
  LET idx == {i \in 1..Len(log) : WellFormedAudio(log[i]) /\ log[i].rate # 0} IN
  IF idx = {} THEN INPUT_SAMPLE_RATE_DEFAULT
  ELSE log[CHOOSE i \in idx : \A j \in idx : j <= i].rate
\* the reader's step enqueued a chunk for the frame it read, or holds it in
\* a put that waits for room
Enqueued(c) ==
  \/ /\ Len(queue'[c]) = Len(queue[c]) + 1
     /\ queue'[c] = Append(queue[c], Last(queue'[c]))
     /\ Last(queue'[c]).kind = "chunk"
     /\ Last(queue'[c]).id = Len(inLog'[c])
  \/ /\ queue'[c] = queue[c]
     /\ routerItem'[c].kind = "chunk"
     /\ routerItem'[c].id = Len(inLog'[c])

\* C19: reading a binary frame enqueues one audio chunk for it and leaves
\* the reader running, and the chunk of a binary frame is forwarded to the
\* remote session with the sample rate that was current when it was read.
C19_BinaryEnqueued ==
  [][\A c \in ClientIds :
       /\ (Read(c) /\ Last(inLog'[c]).form = "binary") =>
            (Enqueued(c) /\ routerPc'[c] \notin Stopped)
       /\ \A i \in 1..Len(calls[c]) :
            LET n == calls[c][i].id IN
            (calls[c][i].op = "sendAudio" /\ inLog[c][n].form = "binary") =>
              calls[c][i].rate = CurrentRate(SubSeq(inLog[c], 1, n - 1))]_vars

\* C20: reading a well-formed audio frame enqueues its chunk with the rate
\* the frame declares, or with the current rate when it declares none (the
\* most recently declared rate, the default when none was declared), and
\* leaves the reader running.
C20_RateTracking ==
  [][\A c \in ClientIds :
       (Read(c) /\ WellFormedAudio(Last(inLog'[c]))) =>
         /\ routerPc'[c] \notin Stopped
         /\ Enqueued(c)
         /\ LET item == IF routerItem'[c] # NoItem THEN routerItem'[c]
                        ELSE Last(queue'[c])
            IN item.rate = CurrentRate(inLog'[c])]_vars

IsText(f) == f.json = "object" /\ f.type = "text" /\ f.data # ""
\* frames a and b belong to one audio turn: no `end` frame from a up to b
SameTurn(c, a, b) == \A e \in a..b : ~IsEnd(inLog[c][e])
\* frame n was sent before the turn of frame b was ended
InsideTurn(c, n, b) == \A e \in b..n : ~IsEnd(inLog[c][e])

\* C21: every text frame read has its text call on the remote session, made
\* by the reader without waiting for the queue; and a text call stands
\* between the calls of two chunks of one audio turn only when the client
\* sent the text frame inside that turn, before the turn's `end`.
C21_TextOvertakes ==
  \A c \in ClientIds :
    /\ \A n \in 1..Len(inLog[c]) :
         IsText(inLog[c][n]) => \E i \in 1..Len(calls[c]) : CallFor(c, i, "text", n)
    /\ \A i \in 1..Len(calls[c]) :
         calls[c][i].op = "text" =>
           \A j \in 1..(i - 1) : \A k \in (i + 1)..Len(calls[c]) :
             LET a == calls[c][j].id
                 b == calls[c][k].id
             IN (calls[c][j].op = "sendAudio" /\ calls[c][k].op = "sendAudio"
                   /\ SameTurn(c, a, b))
                  => InsideTurn(c, calls[c][i].id, b)

\* a text frame read after an audio turn's `end` reached the remote session
\* before that turn's chunk and commit, which were still queued
C21_Overtaken ==
  /\ Len(inLog["c1"]) = 3
  /\ CarriesAudio(inLog["c1"][1]) /\ IsEnd(inLog["c1"][2]) /\ IsText(inLog["c1"][3])
  /\ Len(calls["c1"]) = 3
  /\ CallFor("c1", 1, "text", 3)
  /\ CallFor("c1", 2, "sendAudio", 1)
  /\ CallFor("c1", 3, "commit", 2)

\* the messages that relay what the remote session emitted
RelayedTypes == {"audio", "text", "turn_complete", "ready_for_input"}

\* C22: the first message written to a client is `ready` and it is written
\* once, before the remote session is opened; `connected` is written at
\* most once, only with the session established, right after `ready` and
\* so before every relayed audio, text, turn_complete or ready_for_input.
C22_Greetings ==
  \A c \in ClientIds :
    /\ out[c] # <<>> => out[c][1].type = "ready"
    /\ Count(out[c], LAMBDA m : m.type = "ready") <= 1
    /\ Count(out[c], LAMBDA m : m.type = "connected") <= 1
    /\ sess[c] # "none" => out[c] # <<>>
    /\ \A i \in 1..Len(out[c]) :
         /\ out[c][i].type = "connected" => (i = 2 /\ sess[c] # "none")
         /\ out[c][i].type \in RelayedTypes =>
              (i > 2 /\ out[c][2].type = "connected")

\* ready, connected, and then the relayed output of one remote event
C22_Witness ==
  /\ Len(out["c1"]) = 6
  /\ out["c1"][1].type = "ready" /\ out["c1"][2].type = "connected"
  /\ out["c1"][3].type = "audio" /\ out["c1"][4].type = "text"
  /\ out["c1"][5].type = "turn_complete"
  /\ out["c1"][6].type = "ready_for_input"

\* The relay keeps no TurnState variable: the state is implicit in the order
\* of its events.  A connection is Interrupted from the arrival of a remote
\* event with the interruption flag until the `interrupted` message for
\* that event has been written to the client.
Interrupted(c) ==
  \E n \in 1..Len(evLog[c]) :
    evLog[c][n].intr /\ OutOf(c, n, "interrupted") = <<>>

\* C23: a connection is Interrupted only for the event the receiver is
\* still writing for, or with the receiver ended by a failed write; the
\* receiver never waits for the next remote event, nor takes it, with an
\* interruption not yet written to the client.
C23_InterruptedAcked ==
  \A c \in ClientIds :
    /\ Interrupted(c) =>
         /\ recvPc[c] \in {"send"} \cup Stopped
         /\ evLog[c][Len(evLog[c])].intr
         /\ OutOf(c, Len(evLog[c]), "interrupted") = <<>>
    /\ recvPc[c] = "recv" => ~Interrupted(c)

\* an interruption was written to the client and the receiver has gone on
\* to the next remote event
C23_Witness ==
  /\ Len(evLog["c1"]) = 2
  /\ evLog["c1"][1].intr /\ evLog["c1"][1].handle # 0
  /\ Len(OutOf("c1", 1, "interrupted")) = 1
  /\ ~Interrupted("c1")

\* the sender made this kind of call in this step, and it raised
CallFailed(c, op) ==
  Called(c) /\ Last(calls'[c]).op = op /\ ~Last(calls'[c]).ok

\* C24: a commit call that raises ends the sender, a failed audio forward
\* does not; the sender's end is no signal for the supervisor, whose wait
\* returns only when the reader or the receiver has ended; once the sender
\* has ended nothing is dequeued and no sendAudio or commit call is made;
\* and a reader whose put waits on the full queue then leaves that put only
\* by being cancelled.
C24_CommitFailure ==
  [][\A c \in ClientIds :
       /\ CallFailed(c, "commit") => bridgePc'[c] = "error"
       /\ CallFailed(c, "sendAudio") => bridgePc'[c] = "get"
       /\ (hpc[c] = "wait" /\ hpc'[c] # "wait") =>
            (routerPc[c] \in Stopped \/ recvPc[c] \in Stopped)
       /\ bridgePc[c] = "error" =>
            /\ bridgePc'[c] = "error"
            /\ IsPrefix(queue[c], queue'[c])
            /\ Called(c) => Last(calls'[c]).op = "text"
            /\ (routerPc[c] = "put" /\ QueueFull(c)) =>
                 (QueueFull(c)' /\ routerPc'[c] \in {"put", "cancelled"})]_vars

\* the commit of the first frame raised and ended the sender; the session
\* is still up, eight chunks are queued and the reader waits in its put
C24_Witness ==
  /\ Len(inLog["c1"]) = QUEUE_MAXSIZE + 2
  /\ IsEnd(inLog["c1"][1])
  /\ Len(calls["c1"]) = 1 /\ calls["c1"][1].op = "commit" /\ ~calls["c1"][1].ok
  /\ bridgePc["c1"] = "error"
  /\ hpc["c1"] = "wait" /\ sess["c1"] = "open"
  /\ Len(queue["c1"]) = QUEUE_MAXSIZE /\ routerPc["c1"] = "put"

TookEvent(c) == Len(evLog'[c]) = Len(evLog[c]) + 1
\* the receiver, not cancelled, came back from a write in this step
WriteReturned(c) ==
  /\ recvPc[c] = "send"
  /\ "receiver" \notin cancelReq[c]
  /\ recvPc'[c] # "send" \/ recvTodo'[c] # recvTodo[c]
\* what the receiver has yet to write in this step holds more than audio
MoreThanAudio(c) ==
  IF TookEvent(c) THEN Last(evLog'[c]).text \/ Last(evLog'[c]).tc
  ELSE \E i \in 1..Len(recvTodo[c]) : recvTodo[c][i].type # "audio"

\* C26: with the client transport closed, a receiver that has only `audio`
\* left to write for its event writes nothing and goes on to wait for the
\* next remote event, and a receiver that has a `text`, `turn_complete` or
\* `ready_for_input` left to write ends in error; and after the receiver
\* has ended in error the connection is torn down.
C26_WriteFailures ==
  /\ [][\A c \in ClientIds :
          (ws[c] = "closed" /\ (TookEvent(c) \/ WriteReturned(c))) =>
            /\ out'[c] = out[c]
            /\ recvPc'[c] = IF MoreThanAudio(c) THEN "error" ELSE "recv"]_vars
  /\ (recvPc["c1"] = "error") ~> TornDown("c1")

\* an event with audio alone came after the client had gone: nothing was
\* written for it and the receiver took the next event, whose text it could
\* not write; it ended in error and the connection is torn down
C26_Witness ==
  /\ Len(evLog["c1"]) = 2
  /\ evLog["c1"][1].parts > 0 /\ OutOf("c1", 1, "audio") = <<>>
  /\ evLog["c1"][2].text
  /\ recvPc["c1"] = "error"
  /\ TornDown("c1")
====
